---- MODULE Spec2Model ----
(***************************************************************************)
(* Model of the signal-acquisition pipeline                                *)
(* (src/deepseek_signal/signalGen.py, DeepSeekSignalGenerator) and of the  *)
(* nonce source of the exchange client (src/kraken_api/client.py and       *)
(* src/kraken_api.py, KrakenFuturesApi.create_nonce).                      *)
(*                                                                         *)
(* Numbers: prices are whole numbers; the candle prices are drawn as       *)
(* multiples of 50 so that the percent products of the fallback rule are   *)
(* whole numbers too.  round(x, 2) is modelled on the exact quotient, in   *)
(* hundredths; binary floating-point error is not modelled.                *)
(***************************************************************************)
EXTENDS Integers, Sequences, FiniteSets, TLC

VARIABLES
    api_key,        \* self.api_key: TRUE when DEEPSEEK_API_KEY is set
    symbol,         \* the symbol argument of generate_signal
    pc,             \* position of the run: start, call, done, failed, raised
    fetch_kind,     \* what the market-data call ended in ("" before it)
    ohlc_data,      \* the candle series returned by _fetch_ohlc_data
    attempt,        \* loop index of _call_deepseek_api
    fetches,        \* number of requests.get calls to the market-data API
    calls,          \* number of requests.post calls to the inference endpoint
    outcomes,       \* what each inference attempt ended in, in order
    sleeps,         \* the time.sleep calls, in order: the attempt (from 1) each
                    \* followed and its argument in seconds
    mock_calls,     \* number of calls of _generate_mock_signal
    signal_data,    \* what generate_signal returned (None until it returns)
    prompt,         \* what _prepare_prompt put into the prompt it built last
    generator,      \* the generator's attributes model, base_url, max_retries
                    \* and retry_delay
    response,       \* the answer to the latest inference call of the run
    run,            \* number of generate_signal calls started on the generator
    prev_run,       \* what the run before this one was given and how it ended
    nonce_counter,  \* KrakenFuturesApi.nonce_counter
    clock,          \* int(time.time() * 1000), the wall clock in milliseconds
    nonce,          \* the digits of the latest nonce create_nonce returned
    prev_nonce,     \* the digits of an earlier nonce: the one returned just
                    \* before (NonceSpec), or one kept from before that
                    \* (NoncePairSpec)
    wrapped,        \* whether a call after prev_nonce reset the counter to 0
    set_back,       \* whether a call after prev_nonce read a clock behind the
                    \* one the call before it read
    last_ms,        \* the clock the latest create_nonce read (0 before any)
    thread,         \* concurrent callers of create_nonce: each one's position,
                    \* locals and the nonces it was returned
    conc_start,     \* nonce_counter when the concurrent callers started
    variant,        \* which KrakenFuturesApi: "client" is src/kraken_api/client.py,
                    \* "legacy" is src/kraken_api.py
    kr_api_key,     \* the client's self.api_key
    api_secret,     \* the client's self.api_secret
    op,             \* the client method called last
    signed,         \* the latest call of sign_request: its arguments and result
    sent,           \* the latest request handed to the HTTP library
    result,         \* how the latest client call ended: "ok" or "raised"
    failed_nonces   \* the nonces of the request() calls that raised

sigvars == <<api_key, symbol, pc, fetch_kind, ohlc_data, attempt, fetches, calls, outcomes,
             sleeps, mock_calls, signal_data, prompt, generator, response, run, prev_run>>
noncevars == <<nonce_counter, clock, nonce, prev_nonce, wrapped, set_back, last_ms>>
concvars == <<thread, conc_start>>
reqvars == <<variant, kr_api_key, api_secret, op, signed, sent, result, failed_nonces>>
vars == <<sigvars, noncevars, concvars, reqvars>>

(***************************************************************************)
(* Bounds of the model.                                                    *)
(***************************************************************************)
MaxCandles == 2
MaxClockSteps == 2
ClockBase == 8
MaxKeptCounter == 0
MaxCallsPerThread == 2
MaxRequests == 2
MaxPromptCandles == 11
MaxRuns == 2

(***************************************************************************)
(* Program constants.                                                      *)
(***************************************************************************)
max_retries == 3
retry_delay == 2
MockConfidence == 50
RoundDigits == 2
CounterLimit == 9999
CounterWidth == 5

Symbols == {"XBTUSD", "ETHUSD"}
SignalType == {"BUY", "SELL", "HOLD"}
required_fields == {"signal", "stop_price", "target_price", "reasoning"}

Max(a, b) == IF a >= b THEN a ELSE b
Min(a, b) == IF a <= b THEN a ELSE b
Last(s) == s[Len(s)]

(***************************************************************************)
(* JSON values of the model reply: a number, null or a string.             *)
(***************************************************************************)
Num(n) == [t |-> "num", v |-> n]
Null == [t |-> "null", v |-> 0]
Str == [t |-> "str", v |-> 0]

\* Python truthiness of a JSON value: 0, null are falsy; the model's one
\* string value is non-empty.
Truthy(x) == \/ x.t = "num" /\ x.v # 0
             \/ x.t = "str"

(***************************************************************************)
(* Candles, as _fetch_ohlc_data formats them.                              *)
(***************************************************************************)
Candle(ts, o, c) ==
    [timestamp |-> ts, open |-> o, high |-> Max(o, c), low |-> Min(o, c),
     close |-> c, volume |-> 1]

CandlePrices == {<<50, 100>>, <<100, 50>>, <<100, 100>>, <<0, 50>>}

RECURSIVE SeriesOfLen(_)
SeriesOfLen(n) ==
    IF n = 0 THEN {<< >>}
    ELSE {Append(s, Candle(n, p[1], p[2])) : s \in SeriesOfLen(n - 1), p \in CandlePrices}

Series == UNION {SeriesOfLen(n) : n \in 0..MaxCandles}

(***************************************************************************)
(* What the market-data API can answer (requests.get at line 40).          *)
(***************************************************************************)
FetchKinds == {"transport", "http_error", "error_list", "malformed", "ok"}
FetchResponses ==
    {[kind |-> k, rows |-> << >>] : k \in FetchKinds \ {"ok"}}
    \cup {[kind |-> "ok", rows |-> s] : s \in Series}

\* _fetch_ohlc_data: None on any exception or on a non-empty error list,
\* else the formatted rows (possibly none).
None == [none |-> TRUE, data |-> << >>]
_fetch_ohlc_data(resp) ==
    IF resp.kind = "ok" THEN [none |-> FALSE, data |-> resp.rows] ELSE None

\* Mutant of FetchFailed: "if ohlc_data is None", which lets an empty list pass.
FetchFailedNoneOnly(fetched) == fetched.none

\* generate_signal, line 232: "if not ohlc_data" is true of None and of [].
FetchFailed(fetched) == fetched.none \/ Len(fetched.data) = 0

\* line 236, ohlc_data[-1], raises IndexError on an empty list; line 232 keeps
\* an empty list from reaching it.
IndexRaises(ohlc) == Len(ohlc) = 0

\* _prepare_prompt divides by the first candle's open (line 92); Python raises
\* ZeroDivisionError on a float division by zero.
PromptRaises(ohlc) == ohlc[1].open = 0

(***************************************************************************)
(* _prepare_prompt.  Of the prompt text the model keeps the candles listed *)
(* and the five statistics, before they are formatted; the percent change  *)
(* is kept as the fraction num / den.                                      *)
(***************************************************************************)
PromptWindow == 10

\* ohlc_data[-10:], line 74
RecentData(ohlc) == SubSeq(ohlc, Max(1, Len(ohlc) - PromptWindow + 1), Len(ohlc))

RECURSIVE HighOf(_)
HighOf(s) == IF Len(s) = 1 THEN s[1].high ELSE Max(s[1].high, HighOf(Tail(s)))

RECURSIVE LowOf(_)
LowOf(s) == IF Len(s) = 1 THEN s[1].low ELSE Min(s[1].low, LowOf(Tail(s)))

RECURSIVE VolumeOf(_)
VolumeOf(s) == IF Len(s) = 0 THEN 0 ELSE s[1].volume + VolumeOf(Tail(s))

\* Mutant of high_24h: the maximum over the listed candles only.
high_24h_recent(ohlc) == HighOf(RecentData(ohlc))

\* line 89
high_24h(ohlc) == HighOf(ohlc)

\* line 90
low_24h(ohlc) == LowOf(ohlc)

\* line 91
volume_24h(ohlc) == VolumeOf(ohlc)

\* line 92
price_change(ohlc) ==
    [num |-> (Last(ohlc).close - ohlc[1].open) * 100, den |-> ohlc[1].open]

NoPrompt ==
    [built |-> FALSE, raised |-> FALSE, recent |-> << >>, current_price |-> 0,
     high_24h |-> 0, low_24h |-> 0, volume_24h |-> 0, price_change |-> [num |-> 0, den |-> 1]]

_prepare_prompt(ohlc) ==
    IF PromptRaises(ohlc) THEN [NoPrompt EXCEPT !.raised = TRUE]
    ELSE [built |-> TRUE, raised |-> FALSE, recent |-> RecentData(ohlc),
          current_price |-> Last(ohlc).close,
          high_24h |-> high_24h(ohlc), low_24h |-> low_24h(ohlc),
          volume_24h |-> volume_24h(ohlc), price_change |-> price_change(ohlc)]

\* Candles with their own high, low and volume, for series longer than the
\* listed window.
Bar(ts, o, h, l, c, v) ==
    [timestamp |-> ts, open |-> o, high |-> h, low |-> l, close |-> c, volume |-> v]
Bars(ts) == {Bar(ts, 100, 150, 50, 100, 3), Bar(ts, 50, 100, 0, 100, 1)}

RECURSIVE BarSeriesOfLen(_)
BarSeriesOfLen(n) ==
    IF n = 0 THEN {<< >>}
    ELSE {Append(s, b) : s \in BarSeriesOfLen(n - 1), b \in Bars(n)}

BarSeries == UNION {BarSeriesOfLen(n) : n \in 1..MaxPromptCandles}

\* _prepare_prompt called on the series at hand
PreparePrompt ==
    /\ ~prompt.built
    /\ prompt' = _prepare_prompt(ohlc_data)
    /\ UNCHANGED <<api_key, symbol, pc, fetch_kind, ohlc_data, attempt, fetches, calls,
                   outcomes, sleeps, mock_calls, signal_data, generator, response, run,
                   prev_run>>
    /\ UNCHANGED <<noncevars, concvars, reqvars>>

(***************************************************************************)
(* What the inference endpoint can answer (requests.post at line 162).     *)
(* A reply's content is the text of choices[0].message.content:            *)
(*   notjson  json.loads raises JSONDecodeError                            *)
(*   object   a JSON object with the keys in fields                        *)
(*   array    a JSON array holding the strings in fields                   *)
(*   string   a JSON string in which the names in fields occur             *)
(***************************************************************************)
ReplyPrices == {Num(0), Num(97), Num(98), Num(100), Num(104), Null, Str}
ReplySignals == {"BUY", "SELL", "HOLD", "buy"}
ReplyReasoning == "model reasoning"
ReplyConfidence == Num(80)
ReplyTimeframe == "2 hours"

Content(k, f, sg, st, tg) ==
    [kind |-> k, fields |-> f, signal |-> sg, stop_price |-> st, target_price |-> tg]
NoContent == Content("notjson", {}, "HOLD", Null, Null)

Contents ==
    {NoContent}
    \cup {Content("object", required_fields, sg, st, tg) :
            sg \in ReplySignals, st \in ReplyPrices, tg \in ReplyPrices}
    \cup {Content("object", required_fields \ {f}, "BUY", Num(98), Num(104)) :
            f \in required_fields}
    \cup {Content(k, f, "HOLD", Null, Null) :
            k \in {"object", "array", "string"}, f \in {{}, required_fields}}

\* kind: timeout (requests Timeout), transport (another RequestException),
\* http (a response with a status).  body of a 200: nochoices (a JSON body
\* without choices[0].message.content, a KeyError), content.  A response can
\* carry a 3xx status (one the HTTP library has no redirect to follow for),
\* here 300, with a body like that of a 200.
Response(k, st, b, c) == [kind |-> k, status |-> st, body |-> b, content |-> c]
Responses ==
    {Response("timeout", 0, "none", NoContent), Response("transport", 0, "none", NoContent)}
    \cup {Response("http", st, "none", NoContent) : st \in {429, 401, 403, 500}}
    \cup {Response("http", 200, "nochoices", NoContent)}
    \cup {Response("http", 200, "content", c) : c \in Contents}
    \cup {Response("http", 300, "content", c) :
            c \in {NoContent, Content("object", required_fields, "BUY", Num(98), Num(104))}}

\* before the first inference call of a run
NoResponse == Response("none", 0, "none", NoContent)

\* __init__, lines 24-28 (api_key is kept apart)
NewGenerator ==
    [base_url |-> "https://api.deepseek.com/v1", model |-> "deepseek-chat",
     max_retries |-> max_retries, retry_delay |-> retry_delay]

IsRateLimited(status) == status = 429
\* Mutant of IsAuthFailure: 403 forgotten.
IsAuthFailure401Only(status) == status = 401
IsAuthFailure(status) == status \in {401, 403}
\* response.raise_for_status() raises HTTPError for 4xx and 5xx.
RaisesForStatus(status) == status >= 400 /\ status < 600

\* all(field in signal_data for field in required_fields), line 189
HasRequiredFields(content) == required_fields \subseteq content.fields

\* The branch of the loop body one attempt takes (lines 159-218).
Branch(resp) ==
    CASE resp.kind = "timeout" -> "except_timeout"
      [] resp.kind = "transport" -> "except_request"
      [] resp.kind = "http" /\ IsRateLimited(resp.status) -> "rate_limited"
      [] resp.kind = "http" /\ ~IsRateLimited(resp.status) /\ IsAuthFailure(resp.status)
            -> "auth_failed"
      [] resp.kind = "http" /\ ~IsRateLimited(resp.status) /\ ~IsAuthFailure(resp.status)
            /\ RaisesForStatus(resp.status) -> "except_request"
      [] OTHER ->
            CASE resp.body = "nochoices" -> "except_other"
              [] resp.content.kind = "notjson" -> "except_json"
              [] OTHER -> IF HasRequiredFields(resp.content) THEN "valid" ELSE "invalid"

\* What the attempt is recorded as in outcomes.
Outcome(resp) ==
    CASE resp.kind # "http" -> resp.kind
      [] resp.kind = "http" /\ resp.status # 200 -> "http" \o ToString(resp.status)
      [] OTHER ->
            CASE resp.body # "content" -> resp.body
              [] resp.content.kind = "notjson" -> "notjson"
              [] HasRequiredFields(resp.content) -> "valid"
              [] OTHER -> IF resp.content.kind = "object" THEN "missing_field"
                          ELSE "not_object"

\* Mutant of AttemptsRemain: range(self.max_retries - 1).
AttemptsRemainShort(a) == a < max_retries - 1

\* Mutant of AttemptsRemain: range(self.max_retries + 1).
AttemptsRemainLong(a) == a < max_retries + 1

\* range(self.max_retries), line 158
AttemptsRemain(a) == a < generator.max_retries

\* Mutant of RateLimitWait: the delay not scaled by the attempt number.
RateLimitWaitFixed(a) == retry_delay

\* wait_time of the rate-limit branch, line 171 (attempt counts from 0)
RateLimitWait(a) == generator.retry_delay * (a + 1)

\* the except branches, e.g. lines 198-199: sleep unless this was the last attempt
BackoffSleeps(a) ==
    IF a < generator.max_retries - 1
    THEN <<[attempt |-> a + 1, seconds |-> generator.retry_delay]>>
    ELSE << >>

(***************************************************************************)
(* Signals.  NoSignal stands for Python's None.                            *)
(***************************************************************************)
Signal(sg, sym, cur, st, tg, conf, tf, ts, why, src) ==
    [none |-> FALSE, signal |-> sg, symbol |-> sym, current_price |-> cur,
     stop_price |-> st, target_price |-> tg, confidence |-> conf, timeframe |-> tf,
     timestamp |-> ts, reasoning |-> why, source |-> src,
     has_rr |-> FALSE, risk_reward_ratio |-> 0]
NoSignal ==
    [Signal("HOLD", "", 0, Null, Null, Null, "", 0, "", "none") EXCEPT !.none = TRUE]

\* Mutant of Percent: the factor truncated to a whole number before the product.
PercentTruncated(x, pct) == x * (pct \div 100)

\* close * 0.98 and the like (lines 284-290), in whole numbers
Percent(x, pct) == (x * pct) \div 100

\* Mutant of _generate_mock_signal: the ratio of the 2% stop and 4% target
\* added to the signal.
MockSignalWithRatio(candle, sym) ==
    [Signal(IF candle.close >= candle.open THEN "BUY" ELSE "SELL", sym, candle.close,
            Num(Percent(candle.close, 98)), Num(Percent(candle.close, 104)),
            Num(MockConfidence), "1-4 hours", candle.timestamp,
            "Bullish candle with higher close", "mock-fallback")
     EXCEPT !.has_rr = TRUE, !.risk_reward_ratio = 200]

\* _generate_mock_signal
_generate_mock_signal(candle, sym) ==
    LET close == candle.close IN
    IF close > candle.open
    THEN Signal("BUY", sym, close, Num(Percent(close, 98)), Num(Percent(close, 104)),
                Num(MockConfidence), "1-4 hours", candle.timestamp,
                "Bullish candle with higher close", "mock-fallback")
    ELSE IF close < candle.open
    THEN Signal("SELL", sym, close, Num(Percent(close, 102)), Num(Percent(close, 96)),
                Num(MockConfidence), "1-4 hours", candle.timestamp,
                "Bearish candle with lower close", "mock-fallback")
    ELSE Signal("HOLD", sym, close, Num(0), Num(0),
                Num(MockConfidence), "1-4 hours", candle.timestamp,
                "Neutral price action", "mock-fallback")

\* 10 ** digits
RECURSIVE Pow10(_)
Pow10(n) == IF n = 0 THEN 1 ELSE 10 * Pow10(n - 1)

\* round(num / den, 2) for den > 0, in hundredths: to the nearest hundredth,
\* a tie to the even one.
Round(num, den) ==
    LET n == num * Pow10(RoundDigits)
        q == n \div den
        r == n % den
    IN  IF 2 * r < den THEN q
        ELSE IF 2 * r > den THEN q + 1
        ELSE IF q % 2 = 0 THEN q ELSE q + 1

\* line 259-260: whether the risk/reward block is entered
RatioWanted(sg, st, tg) == sg \in {"BUY", "SELL"} /\ Truthy(st) /\ Truthy(tg)

\* lines 262-267: float minus str raises TypeError
RatioRaises(st, tg) == st.t # "num" \/ tg.t # "num"

\* Mutant of Risk: the BUY formula used for SELL too.
RiskBuyOnly(sg, cur, st) == cur - st.v

Risk(sg, cur, st) == IF sg = "BUY" THEN cur - st.v ELSE st.v - cur
Reward(sg, cur, tg) == IF sg = "BUY" THEN tg.v - cur ELSE cur - tg.v

\* line 269
RiskAllowsRatio(risk) == risk > 0

\* lines 243-272 of generate_signal, for a response that is a JSON object
AiSignal(resp, ohlc, sym) ==
    LET cur == Last(ohlc).close
        base == Signal(resp.signal, sym, cur, resp.stop_price, resp.target_price,
                       ReplyConfidence, ReplyTimeframe, Last(ohlc).timestamp,
                       ReplyReasoning, "deepseek-ai")
    IN  IF RatioWanted(base.signal, base.stop_price, base.target_price)
           /\ ~RatioRaises(base.stop_price, base.target_price)
           /\ RiskAllowsRatio(Risk(base.signal, cur, base.stop_price))
        THEN [base EXCEPT !.has_rr = TRUE,
                          !.risk_reward_ratio =
                              Round(Reward(base.signal, cur, base.target_price),
                                    Risk(base.signal, cur, base.stop_price))]
        ELSE base

\* Whether lines 243-272 raise: .get on a list or a str (AttributeError), or
\* the subtraction of lines 263-267 on a string price (TypeError).
AiRaises(resp) ==
    \/ resp.kind # "object"
    \/ RatioWanted(resp.signal, resp.stop_price, resp.target_price)
       /\ RatioRaises(resp.stop_price, resp.target_price)

\* What a run was given and how it ended.
RunRecord(ran, key, sym, kind, ohlc, outs, resp, at, sig, waits) ==
    [ran |-> ran, api_key |-> key, symbol |-> sym, fetch_kind |-> kind, ohlc_data |-> ohlc,
     outcomes |-> outs, response |-> resp, pc |-> at, signal_data |-> sig, sleeps |-> waits]
NoRun == RunRecord(FALSE, FALSE, "", "", << >>, << >>, NoResponse, "", NoSignal, << >>)

(***************************************************************************)
(* generate_signal, one run.  The run is cut at its HTTP calls: FetchOhlc  *)
(* is the market-data call with everything up to the first inference call; *)
(* CallDeepSeek is one pass of the retry loop, and the pass that ends the  *)
(* loop carries generate_signal to its return.                             *)
(***************************************************************************)

\* line 275: return self._generate_mock_signal(ohlc_data[-1], symbol)
FallBack(ohlc) ==
    /\ signal_data' = _generate_mock_signal(Last(ohlc), symbol)
    /\ mock_calls' = mock_calls + 1
    /\ pc' = "done"

\* Mutant of ReturnAi: the valid response kept for later and the loop gone on.
ReturnAiThenRetry(content) ==
    /\ mock_calls' = mock_calls
    /\ signal_data' = signal_data
    /\ pc' = "call"

\* lines 243-272: the ai branch, which returns the signal or raises
ReturnAi(content) ==
    /\ mock_calls' = mock_calls
    /\ IF AiRaises(content)
       THEN signal_data' = NoSignal /\ pc' = "raised"
       ELSE signal_data' = AiSignal(content, ohlc_data, symbol) /\ pc' = "done"

\* "continue": the next pass of the loop, or lines 220-221 and the fallback
Continue ==
    IF AttemptsRemain(attempt + 1)
    THEN /\ attempt' = attempt + 1
         /\ pc' = "call"
         /\ UNCHANGED <<mock_calls, signal_data>>
    ELSE /\ attempt' = attempt
         /\ FallBack(ohlc_data)

FetchOhlc(resp) ==
    /\ pc = "start"
    /\ fetches' = fetches + 1
    /\ fetch_kind' = resp.kind
    /\ LET fetched == _fetch_ohlc_data(resp) IN
       IF FetchFailed(fetched)
       THEN /\ pc' = "failed"
            /\ UNCHANGED <<ohlc_data, mock_calls, signal_data, prompt>>
       ELSE /\ ohlc_data' = fetched.data
            /\ prompt' = IF IndexRaises(fetched.data) THEN prompt
                         ELSE _prepare_prompt(fetched.data)
            /\ IF IndexRaises(fetched.data) \/ PromptRaises(fetched.data)
               THEN pc' = "raised" /\ UNCHANGED <<mock_calls, signal_data>>
               ELSE IF ~api_key
               THEN FallBack(fetched.data)
               ELSE IF AttemptsRemain(0)
               THEN pc' = "call" /\ UNCHANGED <<mock_calls, signal_data>>
               ELSE FallBack(fetched.data)
    /\ UNCHANGED <<api_key, symbol, attempt, calls, outcomes, sleeps>>
    /\ UNCHANGED <<generator, response, run, prev_run>>
    /\ UNCHANGED <<noncevars, concvars, reqvars>>

\* Mutant of FirstAttempt: the loop index of the run before carried on.
FirstAttemptKept == attempt

\* range(self.max_retries) starts every loop at 0, line 158
FirstAttempt == 0

\* main.py lines 30-33: the next generate_signal call on the same generator,
\* after the call before it has returned or raised.  The locals of the call
\* are new; the generator is the one the call before it left.
NewRun(sym) ==
    /\ pc \in {"done", "failed", "raised"}
    /\ run < MaxRuns
    /\ run' = run + 1
    /\ prev_run' = RunRecord(TRUE, api_key, symbol, fetch_kind, ohlc_data, outcomes,
                             response, pc, signal_data, sleeps)
    /\ symbol' = sym
    /\ pc' = "start"
    /\ attempt' = FirstAttempt
    /\ fetch_kind' = ""
    /\ ohlc_data' = << >>
    /\ fetches' = 0
    /\ calls' = 0
    /\ outcomes' = << >>
    /\ sleeps' = << >>
    /\ mock_calls' = 0
    /\ signal_data' = NoSignal
    /\ prompt' = NoPrompt
    /\ response' = NoResponse
    /\ UNCHANGED <<api_key, generator>>
    /\ UNCHANGED <<noncevars, concvars, reqvars>>

CallDeepSeek(resp) ==
    /\ pc = "call"
    /\ calls' = calls + 1
    /\ outcomes' = Append(outcomes, Outcome(resp))
    /\ response' = resp
    /\ LET branch == Branch(resp) IN
       CASE branch = "rate_limited" ->
                /\ sleeps' = Append(sleeps, [attempt |-> attempt + 1,
                                             seconds |-> RateLimitWait(attempt)])
                /\ Continue
         [] branch = "auth_failed" ->
                /\ UNCHANGED <<sleeps, attempt>>
                /\ FallBack(ohlc_data)
         [] branch = "valid" ->
                /\ UNCHANGED <<sleeps, attempt>>
                /\ ReturnAi(resp.content)
         [] branch = "invalid" ->
                /\ UNCHANGED <<sleeps, attempt>>
                /\ FallBack(ohlc_data)
         [] OTHER ->
                /\ sleeps' = sleeps \o BackoffSleeps(attempt)
                /\ Continue
    /\ UNCHANGED <<api_key, symbol, fetch_kind, ohlc_data, fetches, prompt>>
    /\ UNCHANGED <<generator, run, prev_run>>
    /\ UNCHANGED <<noncevars, concvars, reqvars>>

(***************************************************************************)
(* The nonce source of KrakenFuturesApi.  A nonce is the sequence of its   *)
(* decimal digits.                                                         *)
(***************************************************************************)
\* str(n) for n >= 0
RECURSIVE str(_)
str(n) == IF n < 10 THEN <<n>> ELSE Append(str(n \div 10), n % 10)

\* s.zfill(width)
RECURSIVE zfill(_, _)
zfill(s, width) == IF Len(s) >= width THEN s ELSE zfill(<<0>> \o s, width)

\* int(s) of a digit string
RECURSIVE int(_)
int(s) == IF Len(s) = 0 THEN 0 ELSE 10 * int(SubSeq(s, 1, Len(s) - 1)) + Last(s)

\* Mutant of CounterUsed: the reset one call late.
CounterUsedLate(c) == IF c > CounterLimit + 1 THEN 0 ELSE c

\* lines 27-28: the counter value this call uses
CounterUsed(c) == IF c > CounterLimit THEN 0 ELSE c

\* Mutant of NextCounter: the increment forgotten.
NextCounterStuck(c) == c

\* line 31
NextCounter(c) == c + 1

\* Mutant of NonceString: the counter not zero-filled.
NonceStringNoPad(ms, c) == str(ms) \o str(c)

\* lines 30 and 32
NonceString(ms, c) == str(ms) \o zfill(str(c), CounterWidth)

\* lines 25-32: what one call does to the counter and the observers
NonceStep ==
    /\ nonce_counter' = NextCounter(CounterUsed(nonce_counter))
    /\ wrapped' = (nonce_counter > CounterLimit)
    /\ nonce' = NonceString(clock, CounterUsed(nonce_counter))
    /\ prev_nonce' = nonce
    /\ set_back' = (Len(nonce) > 0 /\ clock < last_ms)
    /\ last_ms' = clock
    /\ UNCHANGED clock

create_nonce ==
    /\ NonceStep
    /\ UNCHANGED <<sigvars, concvars, reqvars>>

\* The counter digits of a nonce: its last CounterWidth digits.
CounterPart(n) == SubSeq(n, Len(n) - CounterWidth + 1, Len(n))

\* create_nonce called when the clock reads ms, seen by an observer who compares
\* the nonce with the one returned just before, or with an earlier one it
\* kept (one whose counter is at most MaxKeptCounter).
CreateNonceAt(ms) ==
    /\ clock' = ms
    /\ nonce_counter' = NextCounter(CounterUsed(nonce_counter))
    /\ nonce' = NonceString(ms, CounterUsed(nonce_counter))
    /\ last_ms' = ms
    /\ LET reset == nonce_counter > CounterLimit
           back == Len(nonce) > 0 /\ ms < last_ms
       IN  \/ /\ prev_nonce' = nonce
              /\ wrapped' = reset
              /\ set_back' = back
           \/ /\ Len(prev_nonce) > 0
              /\ int(CounterPart(prev_nonce)) <= MaxKeptCounter
              /\ prev_nonce' = prev_nonce
              /\ wrapped' = (wrapped \/ reset)
              /\ set_back' = (set_back \/ back)
    /\ UNCHANGED <<sigvars, concvars, reqvars>>

\* time passes
Tick ==
    /\ clock < ClockBase + MaxClockSteps
    /\ clock' = clock + 1
    /\ UNCHANGED <<nonce_counter, nonce, prev_nonce, wrapped, set_back, last_ms>>
    /\ UNCHANGED <<sigvars, concvars, reqvars>>

\* time.time() is the wall clock, which an adjustment can set back
ClockSetBack ==
    /\ clock > ClockBase
    /\ clock' = clock - 1
    /\ UNCHANGED <<nonce_counter, nonce, prev_nonce, wrapped, set_back, last_ms>>
    /\ UNCHANGED <<sigvars, concvars, reqvars>>

(***************************************************************************)
(* create_nonce called by several threads on one client.  The method holds *)
(* no lock, and the interpreter can switch threads between any two of its  *)
(* reads and writes of self.nonce_counter: the test of line 27, the reset  *)
(* of line 28, the read of line 30, and the read and the write of the +=   *)
(* of line 31.                                                             *)
(***************************************************************************)
Threads == {"t1", "t2"}
IdleThread == [pc |-> "idle", counter_str |-> << >>, loaded |-> 0, returned |-> << >>]

\* line 27: if self.nonce_counter > 9999
ConcCheck(t) ==
    /\ thread[t].pc = "idle"
    /\ Len(thread[t].returned) < MaxCallsPerThread
    /\ thread' = [thread EXCEPT ![t].pc =
                      IF nonce_counter > CounterLimit THEN "reset" ELSE "format"]
    /\ UNCHANGED <<conc_start, noncevars, sigvars, reqvars>>

\* line 28: self.nonce_counter = 0
ConcReset(t) ==
    /\ thread[t].pc = "reset"
    /\ nonce_counter' = 0
    /\ thread' = [thread EXCEPT ![t].pc = "format"]
    /\ UNCHANGED <<conc_start, clock, nonce, prev_nonce, wrapped, set_back, last_ms, sigvars, reqvars>>

\* line 30: counter_str = str(self.nonce_counter).zfill(5)
ConcFormat(t) ==
    /\ thread[t].pc = "format"
    /\ thread' = [thread EXCEPT ![t].pc = "load",
                                ![t].counter_str = zfill(str(nonce_counter), CounterWidth)]
    /\ UNCHANGED <<conc_start, noncevars, sigvars, reqvars>>

\* line 31, self.nonce_counter += 1: the read
ConcLoad(t) ==
    /\ thread[t].pc = "load"
    /\ thread' = [thread EXCEPT ![t].pc = "store", ![t].loaded = nonce_counter]
    /\ UNCHANGED <<conc_start, noncevars, sigvars, reqvars>>

\* line 31: the write, and line 32: the return
ConcStore(t) ==
    /\ thread[t].pc = "store"
    /\ nonce_counter' = NextCounter(thread[t].loaded)
    /\ thread' = [thread EXCEPT ![t].pc = "idle",
                                ![t].returned = Append(@, str(clock) \o thread[t].counter_str)]
    /\ UNCHANGED <<conc_start, clock, nonce, prev_nonce, wrapped, set_back, last_ms, sigvars, reqvars>>

(***************************************************************************)
(* Signing and sending (sign_request and request of both clients).  Text   *)
(* is a sequence of pieces, and + on text is \o.  A digest is the record   *)
(* of what went into it, so that two digests are equal exactly when their  *)
(* inputs are.                                                             *)
(***************************************************************************)
Variants == {"client", "legacy"}
HexSecretLength == 128

\* a stored secret: the encoding its owner wrote it in, and its length
Secret(enc, len) == [enc |-> enc, len |-> len]
Secrets == {Secret("base64", 88), Secret("base64", 128),
            Secret("hex", 128), Secret("hex", 64)}

Methods == {"GET", "POST", "post"}
upper(m) == IF m = "post" THEN "POST" ELSE IF m = "get" THEN "GET" ELSE m

DerivativesPrefix == <<"/derivatives">>
Endpoints == {<<"/derivatives", "/api/v3/sendorder">>,
              <<"/api/history/v2/account-log">>,
              <<"/api", "/derivatives">>}

\* params: the dict of a call, in insertion order
ParamSets == {<< >>, <<<<"symbol", "PI_XBTUSD">>>>,
              <<<<"symbol", "PI_XBTUSD">>, <<"cliOrdId", "my order">>>>}

\* urllib's quote_plus on the values the calls use
quote_plus(t) == IF t = "my order" THEN "my+order" ELSE t

RECURSIVE urlencode(_)
urlencode(params) ==
    IF Len(params) = 0 THEN << >>
    ELSE LET pair == <<quote_plus(params[1][1]), "=", quote_plus(params[1][2])>>
         IN  IF Len(params) = 1 THEN pair
             ELSE pair \o <<"&">> \o urlencode(Tail(params))

startswith(s, prefix) ==
    Len(s) >= Len(prefix) /\ SubSeq(s, 1, Len(prefix)) = prefix

\* Mutant of SignedPath: the prefix length cut off without the test.
SignedPathAlwaysCut(endpoint) ==
    SubSeq(endpoint, Len(DerivativesPrefix) + 1, Len(endpoint))

\* client.py line 47, kraken_api.py line 28
SignedPath(endpoint) ==
    IF startswith(endpoint, DerivativesPrefix)
    THEN SubSeq(endpoint, Len(DerivativesPrefix) + 1, Len(endpoint))
    ELSE endpoint

\* the digits of a nonce as pieces of text
Chars(n) == [i \in 1..Len(n) |-> ToString(n[i])]

\* Mutant of Message: the counter of the client signed in place of the nonce.
MessageOfCounter(post_data, n, path) ==
    post_data \o Chars(str(nonce_counter)) \o path

\* client.py line 50, kraken_api.py line 29
Message(post_data, n, path) == post_data \o Chars(n) \o path

\* client.py line 56: base64.b64decode, whatever the text is
\* kraken_api.py line 31: bytes.fromhex for 128 characters, which raises on
\* text that is not hex; otherwise the text's own bytes
SecretDecoding(v, secret) ==
    IF v = "client" THEN "b64decode"
    ELSE IF secret.len = HexSecretLength
         THEN IF secret.enc = "hex" THEN "fromhex" ELSE "ValueError"
         ELSE "encode"

\* Mutant of SignatureEncoding: base64 in both clients.
SignatureEncodingBase64(v) == "base64"

\* client.py line 62, kraken_api.py line 33
SignatureEncoding(v) == IF v = "client" THEN "base64" ELSE "hex"

NoSignature == [raised |-> TRUE, enc |-> "", key |-> "", secret |-> Secret("", 0),
                message |-> << >>]

\* the encoded HMAC-SHA512, under the decoded secret, of the SHA-256 of the
\* message
sign_request(endpoint, n, post_data) ==
    LET message == Message(post_data, n, SignedPath(endpoint))
        key == SecretDecoding(variant, api_secret)
    IN  IF key = "ValueError" THEN NoSignature
        ELSE [raised |-> FALSE, enc |-> SignatureEncoding(variant), key |-> key,
              secret |-> api_secret, message |-> message]

SignCall(endpoint, n, post_data) ==
    [endpoint |-> endpoint, nonce |-> n, post_data |-> post_data,
     sig |-> sign_request(endpoint, n, post_data)]

NotSigned == [endpoint |-> << >>, nonce |-> << >>, post_data |-> << >>,
              sig |-> NoSignature]

BaseUrl == <<"https://futures.kraken.com">>
FormContentType == <<"application/x-www-form-urlencoded">>

\* client.py lines 86-97, kraken_api.py lines 42-52
Headers(method, n, sig) ==
    LET base == [h \in {"APIKey", "Nonce", "User-Agent"} |->
                    IF h = "APIKey" THEN [text |-> <<kr_api_key>>, sig |-> NoSignature]
                    ELSE IF h = "Nonce" THEN [text |-> Chars(n), sig |-> NoSignature]
                    ELSE [text |-> <<"Kraken-Futures-Python-Client/1.0">>, sig |-> NoSignature]]
        typed == IF upper(method) = "POST"
                 THEN base @@ ("Content-Type" :> [text |-> FormContentType, sig |-> NoSignature])
                 ELSE base
    IN  typed @@ ("Authent" :> [text |-> << >>, sig |-> sig])

\* client.py line 93, kraken_api.py line 49
PostData(method, params) ==
    IF upper(method) = "POST" THEN urlencode(params) ELSE << >>

\* Mutant of RequestData: the body encoded again, from the params in reverse.
RequestDataReversed(post_data, params) ==
    urlencode([i \in 1..Len(params) |-> params[Len(params) + 1 - i]])

\* client.py line 108, kraken_api.py line 59
RequestData(post_data, params) == post_data

\* client.py lines 81, 109-111, kraken_api.py lines 39, 55-57
RequestUrl(method, endpoint, params) ==
    IF upper(method) # "POST" /\ Len(params) > 0
    THEN BaseUrl \o endpoint \o <<"?">> \o urlencode(params)
    ELSE BaseUrl \o endpoint

NothingSent == [method |-> "", url |-> << >>, headers |-> << >>, has_data |-> FALSE,
                data |-> << >>]

HttpOutcomes == {"ok", "error"}

\* request(method, endpoint, params); the HTTP call ends as outcome says.
Request(method, endpoint, params, outcome) ==
    /\ nonce_counter < MaxRequests
    /\ NonceStep
    /\ op' = "request"
    /\ LET n == NonceString(clock, CounterUsed(nonce_counter))
           post_data == PostData(method, params)
           call == SignCall(endpoint, n, post_data)
       IN  /\ signed' = call
           /\ IF call.sig.raised
              THEN /\ result' = "raised"
                   /\ failed_nonces' = failed_nonces \cup {n}
                   /\ UNCHANGED sent
              ELSE /\ sent' = [method |-> upper(method),
                               url |-> RequestUrl(method, endpoint, params),
                               headers |-> Headers(method, n, call.sig),
                               has_data |-> upper(method) = "POST",
                               data |-> IF upper(method) = "POST"
                                        THEN RequestData(post_data, params)
                                        ELSE << >>]
                   /\ result' = IF outcome = "ok" THEN "ok" ELSE "raised"
                   /\ failed_nonces' = IF outcome = "ok" THEN failed_nonces
                                        ELSE failed_nonces \cup {n}
    /\ UNCHANGED <<variant, kr_api_key, api_secret>>
    /\ UNCHANGED <<sigvars, concvars>>

\* create_nonce called by itself on this client
CreateNonceCall ==
    /\ nonce_counter < MaxRequests
    /\ NonceStep
    /\ op' = "create_nonce"
    /\ UNCHANGED <<variant, kr_api_key, api_secret, signed, sent, result, failed_nonces>>
    /\ UNCHANGED <<sigvars, concvars>>

\* sign_request called by itself
SignRequest(endpoint, n, post_data) ==
    /\ op' = "sign_request"
    /\ signed' = SignCall(endpoint, n, post_data)
    /\ result' = IF signed'.sig.raised THEN "raised" ELSE "ok"
    /\ UNCHANGED <<variant, kr_api_key, api_secret, sent, failed_nonces>>
    /\ UNCHANGED <<sigvars, noncevars, concvars>>

(***************************************************************************)
(* Specifications.                                                         *)
(***************************************************************************)
Init ==
    /\ api_key \in BOOLEAN
    /\ symbol \in Symbols
    /\ pc = "start"
    /\ fetch_kind = ""
    /\ ohlc_data = << >>
    /\ attempt = 0
    /\ fetches = 0
    /\ calls = 0
    /\ outcomes = << >>
    /\ sleeps = << >>
    /\ mock_calls = 0
    /\ signal_data = NoSignal
    /\ prompt = NoPrompt
    /\ generator = NewGenerator
    /\ response = NoResponse
    /\ run = 1
    /\ prev_run = NoRun
    /\ nonce_counter = 0
    /\ clock = ClockBase
    /\ nonce = << >>
    /\ prev_nonce = << >>
    /\ wrapped = FALSE
    /\ set_back = FALSE
    /\ last_ms = 0
    /\ thread = [t \in Threads |-> IdleThread]
    /\ conc_start = 0
    /\ variant = "client"
    /\ kr_api_key = "key"
    /\ api_secret = Secret("base64", 88)
    /\ op = ""
    /\ signed = NotSigned
    /\ sent = NothingSent
    /\ result = ""
    /\ failed_nonces = {}

Next ==
    \/ \E resp \in FetchResponses : FetchOhlc(resp)
    \/ \E resp \in Responses : CallDeepSeek(resp)

Spec == Init /\ [][Next]_vars

NonceNext ==
    \/ create_nonce
    \/ Tick
    \/ ClockSetBack

\* One client, with the pipeline at rest.
NonceInit == Init /\ api_key /\ symbol = "XBTUSD"

NonceSpec == NonceInit /\ [][NonceNext]_vars

\* The clock readings of the calls are drawn from the clock's range.
NoncePairNext ==
    \E ms \in ClockBase..(ClockBase + MaxClockSteps) : CreateNonceAt(ms)

NoncePairSpec == NonceInit /\ [][NoncePairNext]_vars

\* The threads start on a client whose counter is at 0, or at the two values
\* around the reset, which 9999 and 10000 earlier calls leave.
ConcInit ==
    /\ api_key = TRUE
    /\ symbol = "XBTUSD"
    /\ pc = "start"
    /\ fetch_kind = ""
    /\ ohlc_data = << >>
    /\ attempt = 0
    /\ fetches = 0
    /\ calls = 0
    /\ outcomes = << >>
    /\ sleeps = << >>
    /\ mock_calls = 0
    /\ signal_data = NoSignal
    /\ prompt = NoPrompt
    /\ generator = NewGenerator
    /\ response = NoResponse
    /\ run = 1
    /\ prev_run = NoRun
    /\ nonce_counter \in {0, CounterLimit, CounterLimit + 1}
    /\ clock = ClockBase
    /\ nonce = << >>
    /\ prev_nonce = << >>
    /\ wrapped = FALSE
    /\ set_back = FALSE
    /\ last_ms = 0
    /\ thread = [t \in Threads |-> IdleThread]
    /\ conc_start = nonce_counter
    /\ variant = "client"
    /\ kr_api_key = "key"
    /\ api_secret = Secret("base64", 88)
    /\ op = ""
    /\ signed = NotSigned
    /\ sent = NothingSent
    /\ result = ""
    /\ failed_nonces = {}

ConcNext ==
    \E t \in Threads :
        \/ ConcCheck(t)
        \/ ConcReset(t)
        \/ ConcFormat(t)
        \/ ConcLoad(t)
        \/ ConcStore(t)

ConcSpec == ConcInit /\ [][ConcNext]_vars

\* A new client of either file, holding a secret of any of the kinds.
RequestInit ==
    /\ api_key = TRUE
    /\ symbol = "XBTUSD"
    /\ pc = "start"
    /\ fetch_kind = ""
    /\ ohlc_data = << >>
    /\ attempt = 0
    /\ fetches = 0
    /\ calls = 0
    /\ outcomes = << >>
    /\ sleeps = << >>
    /\ mock_calls = 0
    /\ signal_data = NoSignal
    /\ prompt = NoPrompt
    /\ generator = NewGenerator
    /\ response = NoResponse
    /\ run = 1
    /\ prev_run = NoRun
    /\ nonce_counter = 0
    /\ clock = ClockBase
    /\ nonce = << >>
    /\ prev_nonce = << >>
    /\ wrapped = FALSE
    /\ set_back = FALSE
    /\ last_ms = 0
    /\ thread = [t \in Threads |-> IdleThread]
    /\ conc_start = 0
    /\ variant \in Variants
    /\ kr_api_key = "key"
    /\ api_secret \in Secrets
    /\ op = ""
    /\ signed = NotSigned
    /\ sent = NothingSent
    /\ result = ""
    /\ failed_nonces = {}

\* sign_request is called with the nonce of the latest request or with one
\* of the caller's own.
RequestNext ==
    \/ \E method \in Methods, endpoint \in Endpoints, params \in ParamSets,
          outcome \in HttpOutcomes :
            Request(method, endpoint, params, outcome)
    \/ \E endpoint \in Endpoints, n \in {nonce, <<1>>}, params \in ParamSets :
            SignRequest(endpoint, n, urlencode(params))
    \/ CreateNonceCall

RequestSpec == RequestInit /\ [][RequestNext]_vars

\* A generator holding a fetched series of 1 to MaxPromptCandles candles.
PromptInit ==
    /\ api_key = TRUE
    /\ symbol = "XBTUSD"
    /\ pc = "start"
    /\ fetch_kind = "ok"
    /\ ohlc_data \in BarSeries
    /\ attempt = 0
    /\ fetches = 1
    /\ calls = 0
    /\ outcomes = << >>
    /\ sleeps = << >>
    /\ mock_calls = 0
    /\ signal_data = NoSignal
    /\ prompt = NoPrompt
    /\ generator = NewGenerator
    /\ response = NoResponse
    /\ run = 1
    /\ prev_run = NoRun
    /\ nonce_counter = 0
    /\ clock = ClockBase
    /\ nonce = << >>
    /\ prev_nonce = << >>
    /\ wrapped = FALSE
    /\ set_back = FALSE
    /\ last_ms = 0
    /\ thread = [t \in Threads |-> IdleThread]
    /\ conc_start = 0
    /\ variant = "client"
    /\ kr_api_key = "key"
    /\ api_secret = Secret("base64", 88)
    /\ op = ""
    /\ signed = NotSigned
    /\ sent = NothingSent
    /\ result = ""
    /\ failed_nonces = {}

PromptNext == PreparePrompt

PromptSpec == PromptInit /\ [][PromptNext]_vars

\* Runs of main.py's loop on one generator.  Each run is given one of a few
\* answers: a failed fetch or one of two series, and per attempt a timeout,
\* a 429, a 401, a valid reply or a reply that lacks a field.
RunFetchResponses ==
    {[kind |-> "transport", rows |-> << >>],
     [kind |-> "ok", rows |-> <<Candle(1, 50, 100)>>],
     [kind |-> "ok", rows |-> <<Candle(1, 0, 50)>>]}
RunResponses ==
    {Response("timeout", 0, "none", NoContent),
     Response("http", 429, "none", NoContent),
     Response("http", 401, "none", NoContent),
     Response("http", 200, "content",
              Content("object", required_fields, "BUY", Num(98), Num(104))),
     Response("http", 200, "content",
              Content("object", required_fields \ {"reasoning"}, "BUY", Num(98), Num(104)))}

RunsNext ==
    \/ \E resp \in RunFetchResponses : FetchOhlc(resp)
    \/ \E resp \in RunResponses : CallDeepSeek(resp)
    \/ \E sym \in Symbols : NewRun(sym)

RunsSpec == Init /\ [][RunsNext]_vars

(***************************************************************************)
(* Properties of the pipeline (specification Spec).                        *)
(***************************************************************************)
Ended == pc \in {"done", "failed", "raised"}
FetchSucceeded == fetch_kind = "ok" /\ Len(ohlc_data) > 0
Tagged(tag) == pc = "done" /\ ~signal_data.none /\ signal_data.source = tag
AllOutcomes(o) == calls >= 1 /\ \A i \in 1..Len(outcomes) : outcomes[i] = o
SleepsAfter(i) == {j \in 1..Len(sleeps) : sleeps[j].attempt = i}

\* C1: a run whose inference attempts all end in a transport timeout keeps
\* attempting while fewer than max_retries calls were made, and ends with a
\* fallback-tagged signal after exactly max_retries calls.
C1_TimeoutsEndInFallback ==
    AllOutcomes("timeout") =>
        IF pc = "call" THEN calls < max_retries
        ELSE Tagged("mock-fallback") /\ calls = max_retries

C1_Witness ==
    AllOutcomes("timeout") /\ pc = "done" /\ calls = max_retries

\* C2: a run that ended right after a reply lacking a required field has used
\* up its whole attempt budget and is tagged fallback (the reply is retried
\* like a malformed one while attempts remain).
C2_MissingFieldIsRetried ==
    (Ended /\ calls >= 1 /\ Last(outcomes) = "missing_field") =>
        (calls = max_retries /\ Tagged("mock-fallback"))

\* C3: an attempt answered 401 or 403 is the last attempt of its run, no
\* sleep follows it, and the run ends with a fallback-tagged signal.
C3_AuthFailureAborts ==
    \A i \in 1..Len(outcomes) :
        outcomes[i] \in {"http401", "http403"} =>
            /\ i = Len(outcomes)
            /\ calls = i
            /\ SleepsAfter(i) = {}
            /\ Tagged("mock-fallback")

C3_Witness ==
    /\ Len(outcomes) = 2
    /\ outcomes[2] = "http403"
    /\ Len(sleeps) = 1
    /\ Tagged("mock-fallback")

\* C4: attempt k answered 429 is followed by one sleep of retry_delay * k; if
\* k is below max_retries the next attempt follows; a run answered 429 every
\* time ends with a fallback-tagged signal after exactly max_retries calls.
C4_RateLimitBackoff ==
    /\ \A i \in 1..Len(outcomes) :
          outcomes[i] = "http429" =>
              /\ Cardinality(SleepsAfter(i)) = 1
              /\ \A j \in SleepsAfter(i) : sleeps[j].seconds = retry_delay * i
    /\ (calls >= 1 /\ calls < max_retries /\ Last(outcomes) = "http429") =>
          (pc = "call" /\ attempt = calls)
    /\ (AllOutcomes("http429") /\ pc # "call") =>
          (Tagged("mock-fallback") /\ calls = max_retries)

C4_Witness ==
    /\ AllOutcomes("http429")
    /\ pc = "done"
    /\ sleeps = <<[attempt |-> 1, seconds |-> 2], [attempt |-> 2, seconds |-> 4],
                  [attempt |-> 3, seconds |-> 6]>>

\* C5: when the market-data fetch fails (transport or HTTP error, error list,
\* malformed reply, or no rows) the run returns no signal after that one
\* fetch, with no inference call, no sleep and no fallback computed.
C5_FetchFailureIsTerminal ==
    (pc # "start" /\ ~FetchSucceeded) =>
        /\ pc = "failed"
        /\ signal_data.none
        /\ fetches = 1
        /\ calls = 0
        /\ sleeps = << >>
        /\ mock_calls = 0

C5_Witness ==
    pc = "failed" /\ fetch_kind = "ok" /\ fetches = 1 /\ calls = 0

\* C6: every run whose market-data fetch succeeded ends, if it ends, by
\* returning a signal tagged ai or fallback: no exception reaches the caller.
C6_NoErrorReachesCaller ==
    (Ended /\ FetchSucceeded) =>
        (Tagged("deepseek-ai") \/ Tagged("mock-fallback"))

\* C7: the signal field of an ai-tagged signal is one of BUY, SELL, HOLD.
C7_AiSignalInSignalType ==
    Tagged("deepseek-ai") => signal_data.signal \in SignalType

\* C8: a fallback-tagged signal is decided by the latest candle: close > open
\* gives BUY, stop 0.98 close, target 1.04 close; close < open gives SELL,
\* stop 1.02 close, target 0.96 close; equal gives HOLD with stop and target
\* 0; the current price is the close, the confidence 50.
C8_FallbackRule ==
    Tagged("mock-fallback") =>
        LET c == Last(ohlc_data)
            sd == signal_data
        IN  /\ sd.current_price = c.close
            /\ sd.confidence = Num(MockConfidence)
            /\ sd.stop_price.t = "num" /\ sd.target_price.t = "num"
            /\ c.close > c.open =>
                  /\ sd.signal = "BUY"
                  /\ 100 * sd.stop_price.v = 98 * c.close
                  /\ 100 * sd.target_price.v = 104 * c.close
            /\ c.close < c.open =>
                  /\ sd.signal = "SELL"
                  /\ 100 * sd.stop_price.v = 102 * c.close
                  /\ 100 * sd.target_price.v = 96 * c.close
            /\ c.close = c.open =>
                  /\ sd.signal = "HOLD"
                  /\ sd.stop_price.v = 0
                  /\ sd.target_price.v = 0

C8_Witness ==
    /\ Tagged("mock-fallback")
    /\ calls = max_retries
    /\ Last(ohlc_data).close < Last(ohlc_data).open
    /\ signal_data.signal = "SELL"
    /\ signal_data.stop_price = Num(51)

\* The risk and reward of a signal, as the claim C9 defines them.
C9_Risk(sd) ==
    IF sd.signal = "BUY" THEN sd.current_price - sd.stop_price.v
    ELSE sd.stop_price.v - sd.current_price
C9_Reward(sd) ==
    IF sd.signal = "BUY" THEN sd.target_price.v - sd.current_price
    ELSE sd.current_price - sd.target_price.v
C9_RatioDue(sd) ==
    /\ sd.signal \in {"BUY", "SELL"}
    /\ sd.stop_price.t = "num" /\ sd.stop_price.v # 0
    /\ sd.target_price.t = "num" /\ sd.target_price.v # 0
    /\ C9_Risk(sd) > 0
Abs(x) == IF x < 0 THEN -x ELSE x

\* C9, as claimed: an ai-tagged signal carries the ratio exactly when it is
\* BUY or SELL with non-zero stop and target and risk > 0, and the ratio is
\* then reward / risk (risk_reward_ratio is in hundredths).
C9_RatioIsExactQuotient ==
    Tagged("deepseek-ai") =>
        /\ signal_data.has_rr <=> C9_RatioDue(signal_data)
        /\ signal_data.has_rr =>
              signal_data.risk_reward_ratio * C9_Risk(signal_data)
                  = 100 * C9_Reward(signal_data)

\* C9, amended: the same, with the ratio being reward / risk rounded to two
\* decimal places (the hundredth nearest to the quotient).
C9_RatioIsRoundedQuotient ==
    Tagged("deepseek-ai") =>
        /\ signal_data.has_rr <=> C9_RatioDue(signal_data)
        /\ signal_data.has_rr =>
              2 * Abs(signal_data.risk_reward_ratio * C9_Risk(signal_data)
                        - 100 * C9_Reward(signal_data))
                  <= C9_Risk(signal_data)

C9_Witness ==
    /\ Tagged("deepseek-ai")
    /\ signal_data.signal = "BUY"
    /\ signal_data.current_price = 100
    /\ signal_data.stop_price = Num(97)
    /\ signal_data.target_price = Num(104)
    /\ signal_data.has_rr
    /\ signal_data.risk_reward_ratio = 133

(***************************************************************************)
(* Further properties of the retry loop (specification Spec).              *)
(***************************************************************************)
StatusesModelled == {r.status : r \in {x \in Responses : x.kind = "http"}}

\* the recorded outcomes of the failures named retryable: a timeout, a
\* transport error, content that is no JSON, a status outside 2xx that is
\* none of 401, 403, 429
RetryableOutcomes ==
    {"timeout", "transport", "notjson"}
    \cup {"http" \o ToString(st) :
            st \in {x \in StatusesModelled : (x < 200 \/ x > 299) /\ x \notin {401, 403, 429}}}

\* C17: after an attempt that failed in a retryable way and was not the last
\* of the budget, the run waits retry_delay once and is at, or has made,
\* another attempt; every attempt made is counted once.
C17_FailuresAreRetried ==
    /\ Len(outcomes) = calls
    /\ \A i \in 1..Len(outcomes) :
          (outcomes[i] \in RetryableOutcomes /\ i < max_retries) =>
              /\ Cardinality(SleepsAfter(i)) = 1
              /\ \A j \in SleepsAfter(i) : sleeps[j].seconds = retry_delay
              /\ Len(outcomes) > i \/ pc = "call"

\* C20: a run makes at most max_retries inference calls whatever the
\* endpoint answers; while the loop runs the attempt index is the number of
\* calls made, rate-limit answers included, and it has not reached
\* max_retries.
C20_CallsAreBounded ==
    /\ calls <= max_retries
    /\ attempt <= calls
    /\ pc = "call" => attempt = calls /\ calls < max_retries

C20_Witness ==
    /\ Ended
    /\ calls = max_retries
    /\ \A i \in 1..Len(outcomes) : outcomes[i] = "http429"


(***************************************************************************)
(* Properties of the nonce source (specification NonceSpec).               *)
(***************************************************************************)
\* The millisecond part of a nonce: all but its last CounterWidth digits.
NonceMs(n) == int(SubSeq(n, 1, Len(n) - CounterWidth))

\* C10: of two successive nonces the later one is the larger decimal integer,
\* provided the clock read by the later call is not behind the one read by the
\* earlier call and the counter was not reset to 0 within the same millisecond.
C10_NoncesIncrease ==
    (/\ Len(prev_nonce) > 0
     /\ NonceMs(nonce) >= NonceMs(prev_nonce)
     /\ ~(wrapped /\ NonceMs(nonce) = NonceMs(prev_nonce)))
        => int(nonce) > int(prev_nonce)

C10_Witness ==
    /\ Len(prev_nonce) > 0
    /\ wrapped
    /\ NonceMs(nonce) > NonceMs(prev_nonce)
    /\ Len(nonce) > Len(prev_nonce)
    /\ int(nonce) > int(prev_nonce)

(***************************************************************************)
(* Properties of pairs of nonces (specification NoncePairSpec).           *)
(***************************************************************************)
SameMs == NonceMs(nonce) = NonceMs(prev_nonce)

C16_CounterPart ==
    Len(nonce) > 0 =>
        /\ Len(nonce) = Len(str(last_ms)) + 5
        /\ SubSeq(nonce, 1, Len(str(last_ms))) = str(last_ms)
        /\ int(CounterPart(nonce)) \in 0..9999
        /\ nonce_counter = int(CounterPart(nonce)) + 1
        /\ Len(prev_nonce) = 0 => int(CounterPart(nonce)) = 0
        /\ Len(prev_nonce) > 0 =>
              int(CounterPart(nonce)) =
                  IF int(CounterPart(prev_nonce)) = 9999 THEN 0
                  ELSE int(CounterPart(prev_nonce)) + 1

C16_Witness ==
    /\ Len(prev_nonce) > 0
    /\ int(CounterPart(prev_nonce)) = 9999
    /\ int(CounterPart(nonce)) = 0
    /\ nonce_counter = 1

(***************************************************************************)
(* Properties of concurrent nonce generation (specification ConcSpec).     *)
(***************************************************************************)
ReturnedBy(t) == {thread[t].returned[i] : i \in 1..Len(thread[t].returned)}
ReturnedCount == Len(thread["t1"].returned) + Len(thread["t2"].returned)
AllIdle == \A t \in Threads : thread[t].pc = "idle"

\* C12: on a client that starts at counter 0, no two calls are given the same
\* counter value, and when all calls have returned the counter has advanced
\* by the number of calls.
C12_NonceGenerationSerialized ==
    conc_start = 0 =>
        /\ \A t \in Threads :
              Cardinality(ReturnedBy(t)) = Len(thread[t].returned)
        /\ ReturnedBy("t1") \cap ReturnedBy("t2") = {}
        /\ AllIdle => nonce_counter = ReturnedCount

(***************************************************************************)
(* Properties of signing and sending (specification RequestSpec).          *)
(***************************************************************************)
RequestBuilt == op = "request" /\ ~signed.sig.raised
Signed == op # "" /\ ~signed.sig.raised

\* C13: a request built by request() carries the headers APIKey, Nonce and
\* Authent; its Nonce header is the nonce that was signed and its Authent
\* header the signature; a POST carries the form Content-Type and the very
\* body that was signed; for a GET the signed body is empty.
C13_HeadersAndBody ==
    RequestBuilt =>
        /\ {"APIKey", "Nonce", "Authent"} \subseteq DOMAIN sent.headers
        /\ sent.headers["Nonce"].text = Chars(signed.nonce)
        /\ sent.headers["Authent"].sig = signed.sig
        /\ sent.method = "POST" =>
              /\ "Content-Type" \in DOMAIN sent.headers
              /\ sent.headers["Content-Type"].text = FormContentType
              /\ sent.has_data
              /\ sent.data = signed.post_data
        /\ sent.method = "GET" => signed.post_data = << >>

C13_Witness ==
    /\ RequestBuilt
    /\ sent.method = "POST"
    /\ sent.data = urlencode(<<<<"symbol", "PI_XBTUSD">>, <<"cliOrdId", "my order">>>>)
    /\ sent.headers["Nonce"].text = Chars(nonce)

\* C14: a call of sign_request leaves api_key, api_secret and nonce_counter
\* as they were, and called with the arguments of the signing before it, it
\* returns the signature of the signing before it, however many nonces were
\* produced in between.
C14_SigningIsPure ==
    [][op' = "sign_request" =>
          /\ UNCHANGED <<kr_api_key, api_secret, nonce_counter>>
          /\ (/\ signed'.endpoint = signed.endpoint
              /\ signed'.nonce = signed.nonce
              /\ signed'.post_data = signed.post_data) => signed'.sig = signed.sig]_vars

C14_Witness ==
    /\ op = "sign_request"
    /\ ~signed.sig.raised
    /\ signed.nonce = <<1>>
    /\ nonce_counter = MaxRequests

\* C15: the message that is hashed is the body, then the nonce, then the
\* endpoint without its leading /derivatives, or the endpoint itself when it
\* does not start with /derivatives.
C15_SignedMessage ==
    Signed =>
        signed.sig.message =
            signed.post_data \o Chars(signed.nonce) \o
            (IF signed.endpoint[1] = "/derivatives" THEN Tail(signed.endpoint)
             ELSE signed.endpoint)

C15_Witness ==
    /\ Signed
    /\ signed.endpoint = <<"/api/history/v2/account-log">>
    /\ Len(signed.post_data) > 0
    /\ signed.sig.message[Len(signed.sig.message)] = "/api/history/v2/account-log"

\* C18: a signature is written in the encoding of the stored secret, and the
\* secret is decoded from that encoding.
C18_EncodingFollowsSecret ==
    op # "" =>
        /\ ~signed.sig.raised
        /\ signed.sig.enc = api_secret.enc
        /\ signed.sig.key = IF api_secret.enc = "hex" THEN "fromhex" ELSE "b64decode"

(***************************************************************************)
(* Properties of the prompt (specification PromptSpec).                    *)
(***************************************************************************)
RECURSIVE C19_VolumeUpTo(_)
C19_VolumeUpTo(n) == IF n = 0 THEN 0 ELSE C19_VolumeUpTo(n - 1) + ohlc_data[n].volume

\* C19: the prompt lists the last 10 candles of the series, or all of them
\* when there are fewer; its current price is the close of the last candle,
\* its high the greatest high and its low the least low of the whole series,
\* its volume the sum of all volumes, and its percent change
\* (lastClose - firstOpen) / firstOpen * 100.
C19_PromptStatistics ==
    prompt.built =>
        LET n == Len(ohlc_data)
            k == Len(prompt.recent)
        IN  /\ k = Min(n, 10)
            /\ \A i \in 1..k : prompt.recent[i] = ohlc_data[n - k + i]
            /\ prompt.current_price = ohlc_data[n].close
            /\ \A i \in 1..n : ohlc_data[i].high <= prompt.high_24h
            /\ \E i \in 1..n : ohlc_data[i].high = prompt.high_24h
            /\ \A i \in 1..n : ohlc_data[i].low >= prompt.low_24h
            /\ \E i \in 1..n : ohlc_data[i].low = prompt.low_24h
            /\ prompt.volume_24h = C19_VolumeUpTo(n)
            /\ prompt.price_change.num * ohlc_data[1].open =
                   (ohlc_data[n].close - ohlc_data[1].open) * 100 * prompt.price_change.den

\* a series of 11 candles whose high and low are reached by the first candle
\* only, which the prompt does not list
C19_Witness ==
    /\ prompt.built
    /\ Len(ohlc_data) = 11
    /\ Len(prompt.recent) = 10
    /\ \A i \in 1..Len(prompt.recent) : prompt.recent[i].high < prompt.high_24h

(***************************************************************************)
(* Properties of the signal a run returns (specification Spec).            *)
(***************************************************************************)
\* some attempt was answered 2xx with content that parsed and held all the
\* required fields
ValidAttempt == \E i \in 1..Len(outcomes) : outcomes[i] = "valid"

\* C21: a run returns an ai-tagged signal exactly when one of its attempts
\* was answered 2xx with JSON content holding all required fields; the
\* signal then has the signal, stop_price, target_price and reasoning of
\* that response and the close and timestamp of the last candle; every other
\* run that returns a signal returns a fallback-tagged one.
C21_AiIffValidResponse ==
    pc = "done" =>
        /\ Tagged("deepseek-ai") <=> ValidAttempt
        /\ Tagged("deepseek-ai") =>
              /\ signal_data.signal = response.content.signal
              /\ signal_data.stop_price = response.content.stop_price
              /\ signal_data.target_price = response.content.target_price
              /\ signal_data.reasoning = ReplyReasoning
              /\ signal_data.current_price = Last(ohlc_data).close
              /\ signal_data.timestamp = Last(ohlc_data).timestamp
        /\ ~ValidAttempt => Tagged("mock-fallback")

\* C22: an attempt answered with a valid response is the last of its run: the
\* run has ended, has made as many calls as that attempt's number, and every
\* wait of the run came before that attempt.
C22_ValidAttemptEndsLoop ==
    \A i \in 1..Len(outcomes) :
        outcomes[i] = "valid" =>
            /\ i = Len(outcomes)
            /\ calls = i
            /\ Ended
            /\ \A j \in 1..Len(sleeps) : sleeps[j].attempt < i

C22_Witness ==
    /\ pc = "done"
    /\ Len(outcomes) = 2
    /\ outcomes[2] = "valid"
    /\ Len(sleeps) = 1
    /\ Tagged("deepseek-ai")

\* C23: every wait of the retry loop is followed by another inference
\* attempt, so none follows the last attempt of the budget and a run waits at
\* most max_retries - 1 times.
C23_WaitsPrecedeAttempts ==
    /\ Len(sleeps) <= max_retries - 1
    /\ \A j \in 1..Len(sleeps) :
          /\ sleeps[j].attempt < max_retries
          /\ sleeps[j].attempt < Len(outcomes) \/ pc = "call"

\* C24: a run of a generator without API key that fetched market data makes
\* no inference call, waits never, and ends with a fallback-tagged signal.
C24_NoKeyFallsBack ==
    (~api_key /\ FetchSucceeded) =>
        /\ calls = 0
        /\ Len(sleeps) = 0
        /\ Tagged("mock-fallback")

\* C27: a fallback-tagged signal has no risk_reward_ratio, also when it is
\* BUY or SELL with a stop and a target that are not 0.
C27_FallbackHasNoRatio ==
    Tagged("mock-fallback") => ~signal_data.has_rr

C27_Witness ==
    /\ Tagged("mock-fallback")
    /\ signal_data.signal = "SELL"
    /\ signal_data.stop_price.v # 0
    /\ signal_data.target_price.v # 0
    /\ ~signal_data.has_rr

IsPrefix(s, t) == Len(s) <= Len(t) /\ SubSeq(t, 1, Len(s)) = s

\* this run was given, as far as it went, what the run before it was given,
\* for the same symbol or another
SameInputsSoFar ==
    /\ prev_run.ran
    /\ fetch_kind = prev_run.fetch_kind
    /\ ohlc_data = prev_run.ohlc_data
    /\ IsPrefix(outcomes, prev_run.outcomes)

\* C26: the generator's attributes are those it was constructed with in every
\* run; every run's loop starts at attempt 0, with the whole budget; and a
\* run given what the run before it was given ends where and as that run
\* ended, with the same signal but for its symbol.
C26_RunsAreIndependent ==
    /\ generator = NewGenerator
    /\ prev_run.ran => api_key = prev_run.api_key
    /\ pc = "call" => attempt = calls /\ calls < max_retries
    /\ (SameInputsSoFar /\ Ended) =>
          /\ Len(outcomes) = Len(prev_run.outcomes)
          /\ response = prev_run.response =>
                /\ pc = prev_run.pc
                /\ signal_data =
                      [prev_run.signal_data EXCEPT
                          !.symbol = IF prev_run.signal_data.none THEN "" ELSE symbol]
                /\ sleeps = prev_run.sleeps

C26_Witness ==
    /\ run = MaxRuns
    /\ Len(prev_run.outcomes) = max_retries
    /\ prev_run.pc = "done"
    /\ SameInputsSoFar
    /\ symbol # prev_run.symbol
    /\ Len(outcomes) = max_retries
    /\ Tagged("mock-fallback")

====
